---------------------------- MODULE Spec2Model ----------------------------
(***************************************************************************)
(* A model of TSMServerShell-Deno (src/mod.ts): the route table of         *)
(* ServerShell, its registration methods (get, post, options, put,         *)
(* delete, any, useStatic), the middleware slot (use) and the request      *)
(* handler that listen() hands to Deno.serve.                              *)
(*                                                                         *)
(* JavaScript strings are modelled as sequences of one-character strings,  *)
(* so that toUpperCase, toLowerCase, split, join and replaceAll are        *)
(* computed and not assumed.                                               *)
(***************************************************************************)
EXTENDS Integers, Sequences, FiniteSets

VARIABLES
    routes,      \* ServerShell.routes: Array<Route>, in insertion order
    middleware,  \* ServerShell.middleware: the one hook
    call,        \* history: the last setup call made on the shell and its outcome
    reqs,        \* the request handler's invocations, one record per request
    disk,        \* the host's file system: the entries of each directory on it
    reads,       \* history: what readFileSync read in the last useStatic call
    lookup       \* history: a call of MIMEFromExt and the string it returned

vars == <<routes, middleware, call, reqs, disk, reads, lookup>>

----------------------------------------------------------------------------
(* Bounds of the model. *)

\* The registration actions stop once the table holds this many routes.
MaxRoutes == 3

\* The longest extension spelled out letter by letter for MIMEFromExt.
MaxExtLen == 4

----------------------------------------------------------------------------
(* Strings. *)

LowerLetters ==
    <<"a","b","c","d","e","f","g","h","i","j","k","l","m",
      "n","o","p","q","r","s","t","u","v","w","x","y","z">>

UpperLetters ==
    <<"A","B","C","D","E","F","G","H","I","J","K","L","M",
      "N","O","P","Q","R","S","T","U","V","W","X","Y","Z">>

\* The position of letter c in alphabet abc, 0 when it is not in it.
LetterIndex(abc, c) ==
    IF \E k \in 1..Len(abc) : abc[k] = c
    THEN CHOOSE k \in 1..Len(abc) : abc[k] = c
    ELSE 0

\* Character c with the letters of alphabet from replaced by those of to.
MapLetter(from, to, c) ==
    IF LetterIndex(from, c) # 0 THEN to[LetterIndex(from, c)] ELSE c

RECURSIVE MapLetters(_, _, _)
MapLetters(from, to, s) ==
    IF s = <<>> THEN <<>>
    ELSE <<MapLetter(from, to, Head(s))>> \o MapLetters(from, to, Tail(s))

\* String.prototype.toUpperCase on ASCII text.
toUpperCase(s) == MapLetters(LowerLetters, UpperLetters, s)

\* String.prototype.toLowerCase on ASCII text.
toLowerCase(s) == MapLetters(UpperLetters, LowerLetters, s)

\* The text of s before the first character of stops (all of s without one).
RECURSIVE Before(_, _)
Before(s, stops) ==
    IF s = <<>> \/ Head(s) \in stops THEN <<>>
    ELSE <<Head(s)>> \o Before(Tail(s), stops)

\* String.prototype.split for one-character separators: the pieces of s
\* between the characters of seps, the empty ones included.
RECURSIVE SplitOn(_, _)
SplitOn(s, seps) ==
    IF \A k \in 1..Len(s) : s[k] \notin seps THEN <<s>>
    ELSE <<Before(s, seps)>> \o
         SplitOn(SubSeq(s, Len(Before(s, seps)) + 2, Len(s)), seps)

\* Array.prototype.join: the pieces with sep between them.
RECURSIVE JoinWith(_, _)
JoinWith(pieces, sep) ==
    IF pieces = <<>> THEN <<>>
    ELSE IF Len(pieces) = 1 THEN pieces[1]
    ELSE pieces[1] \o <<sep>> \o JoinWith(Tail(pieces), sep)

\* String.prototype.replaceAll for one-character arguments.
RECURSIVE replaceAll(_, _, _)
replaceAll(s, old, new) ==
    IF s = <<>> THEN <<>>
    ELSE <<IF Head(s) = old THEN new ELSE Head(s)>> \o replaceAll(Tail(s), old, new)

\* The method strings the registration methods store in a Route.
GET == <<"G","E","T">>
POST == <<"P","O","S","T">>
OPTIONS == <<"O","P","T","I","O","N","S">>
PUT == <<"P","U","T">>
DELETE == <<"D","E","L","E","T","E">>
ANY == <<"A","N","Y">>

ConcreteMethods == {GET, POST, OPTIONS, PUT, DELETE}

----------------------------------------------------------------------------
(* Routes and errors. *)

\* new Route(path, method, callback)
Route(path, method, callback) ==
    [path |-> path, method |-> method, callback |-> callback]

\* equals without the comparison of the methods.
equalsPathOnly(route, path, method) ==
    IF route.path = path THEN TRUE ELSE FALSE

\* Route.equals(path, method)
equals(route, path, method) ==
    IF route.path = path /\ route.method = method THEN TRUE ELSE FALSE

\* No error thrown.
NoError == [name |-> "none", route |-> <<>>]

\* new RouteAlreadyBoundError(route): the message quotes the route's path.
RouteAlreadyBoundError(route) ==
    [name |-> "RouteAlreadyBoundError", route |-> route]

----------------------------------------------------------------------------
(* The registration methods.  Each scans the whole table with forEach and  *)
(* throws at the first route its own condition rejects; only when the scan  *)
(* ends does it push the new route.  A call's outcome is the table it       *)
(* leaves and the error it throws.                                          *)

\* The condition of get without the ANY alternative.
getConflictNoAny(route, path) ==
    route.path = path /\ route.method = GET

\* get: the condition of the forEach callback.
getConflict(route, path) ==
    route.path = path /\ (route.method = GET \/ route.method = ANY)

\* The condition of post as a copy of get's, the method left unchanged.
postConflictCopied(route, path) ==
    route.path = path /\ (route.method = GET \/ route.method = ANY)

\* post: the condition of the forEach callback.
postConflict(route, path) ==
    route.path = path /\ (route.method = POST \/ route.method = ANY)

\* options: the condition of the forEach callback.
optionsConflict(route, path) ==
    route.path = path /\ (route.method = OPTIONS \/ route.method = ANY)

\* The condition of put without the ANY alternative.
putConflictNoAny(route, path) ==
    route.path = path /\ route.method = PUT

\* put: the condition of the forEach callback.
putConflict(route, path) ==
    route.path = path /\ (route.method = PUT \/ route.method = ANY)

\* The condition of delete with the path compared and the method not.
deleteConflictPathOnly(route, path) ==
    route.path = path

\* delete: the condition of the forEach callback.
deleteConflict(route, path) ==
    route.path = path /\ (route.method = DELETE \/ route.method = ANY)

\* The condition of any with only ANY routes rejected.
anyConflictAnyOnly(route, path) ==
    route.path = path /\ route.method = ANY

\* any: the condition of the forEach callback.
anyConflict(route, path) ==
    route.path = path

\* The body with unshift in the place of push.
bindFront(rs, path, method, listener, conflict) ==
    IF conflict
    THEN [routes |-> rs, thrown |-> RouteAlreadyBoundError(path)]
    ELSE [routes |-> <<Route(path, method, listener)>> \o rs, thrown |-> NoError]

\* The body shared by the six methods: the forEach throws, or the scan ends
\* and the new route is pushed.
bind(rs, path, method, listener, conflict) ==
    IF conflict
    THEN [routes |-> rs, thrown |-> RouteAlreadyBoundError(path)]
    ELSE [routes |-> Append(rs, Route(path, method, listener)), thrown |-> NoError]

\* get that puts the new listener on the route it finds bound.
getReplaces(rs, path, listener) ==
    [routes |-> [k \in 1..Len(rs) |->
                    IF getConflict(rs[k], path)
                    THEN Route(path, rs[k].method, listener) ELSE rs[k]]
                \o (IF \E k \in 1..Len(rs) : getConflict(rs[k], path)
                    THEN <<>> ELSE <<Route(path, GET, listener)>>),
     thrown |-> NoError]

get(rs, path, listener) ==
    bind(rs, path, GET, listener, \E k \in 1..Len(rs) : getConflict(rs[k], path))

post(rs, path, listener) ==
    bind(rs, path, POST, listener, \E k \in 1..Len(rs) : postConflict(rs[k], path))

options(rs, path, listener) ==
    bind(rs, path, OPTIONS, listener, \E k \in 1..Len(rs) : optionsConflict(rs[k], path))

put(rs, path, listener) ==
    bind(rs, path, PUT, listener, \E k \in 1..Len(rs) : putConflict(rs[k], path))

delete(rs, path, listener) ==
    bind(rs, path, DELETE, listener, \E k \in 1..Len(rs) : deleteConflict(rs[k], path))

any(rs, path, listener) ==
    bind(rs, path, ANY, listener, \E k \in 1..Len(rs) : anyConflict(rs[k], path))

----------------------------------------------------------------------------
(* useStatic: the walk of a directory tree that binds a GET route to every  *)
(* file.                                                                    *)

\* A lookup that ignores the case of the letters and knows html and htm only.
MIMEFromExtAnyCase(extension) ==
    IF toLowerCase(extension) \in {<<"h","t","m","l">>, <<"h","t","m">>}
    THEN "text/html"
    ELSE "text/plain"

\* The switch of MIMEFromExt; the default case logs a notice and answers
\* text/plain.
MIMEFromExt(extension) ==
    CASE extension = <<"h","t","m","l">> \/ extension = <<"h","t","m">> -> "text/html"
      [] extension = <<"c","s","s">> -> "text/css"
      [] extension = <<"j","s">> \/ extension = <<"m","j","s">> -> "text/javascript"
      [] extension = <<"t","x","t">> -> "text/plain"
      [] extension = <<"s","v","g">> -> "image/svg+xml"
      [] extension = <<"a","p","n","g">> -> "image/apng"
      [] extension = <<"p","n","g">> -> "image/png"
      [] extension = <<"g","i","f">> -> "image/gif"
      [] extension = <<"j","p","g">> \/ extension = <<"j","p","e","g">> -> "image/jpeg"
      [] extension = <<"i","c","o">> -> "image/vnd.microsoft.icon"
      [] extension = <<"m","p","4">> -> "video/mp4"
      [] extension = <<"m","p","e","g">> -> "video/mpeg"
      [] extension = <<"o","g","v">> -> "video/ogg"
      [] extension = <<"m","p","3">> -> "audio/mpeg"
      [] extension = <<"o","g","a">> -> "audio/ogg"
      [] extension = <<"j","s","o","n">> -> "application/json"
      [] extension = <<"x","m","l">> -> "application/xml"
      [] extension = <<"z","i","p">> -> "application/zip"
      [] extension = <<"7","z">> -> "application/x-7z-compressed"
      [] extension = <<"r","a","r">> -> "application/vnd.rar"
      [] extension = <<"t","a","r">> -> "application/x-tar"
      [] extension = <<"g","z">> -> "application/gzip"
      [] extension = <<"p","h","p">> -> "application/x-httpd-php"
      [] extension = <<"p","d","f">> -> "application/pdf"
      [] extension = <<"s","h">> -> "application/x-sh"
      [] extension = <<"o","t","f">> -> "font/otf"
      [] extension = <<"t","t","f">> -> "font/ttf"
      [] OTHER -> "text/plain"

\* The path separators the host's join accepts, and the one it writes.
Seps(os) == IF os = "windows" THEN {"/", "\\"} ELSE {"/"}

Sep(os) == IF os = "windows" THEN "\\" ELSE "/"

\* normalizeString of the path library: one more segment on the stack of
\* segments kept so far.  An empty segment or "." is dropped, ".." removes the
\* segment before it, and above the start of a relative path it is kept.
Kept(stack, seg, allowAboveRoot) ==
    IF seg = <<>> \/ seg = <<".">> THEN stack
    ELSE IF seg = <<".", ".">>
         THEN IF stack # <<>> /\ stack[Len(stack)] # <<".", ".">>
              THEN SubSeq(stack, 1, Len(stack) - 1)
              ELSE IF allowAboveRoot THEN Append(stack, seg) ELSE stack
         ELSE Append(stack, seg)

RECURSIVE KeptAll(_, _, _)
KeptAll(stack, segs, allowAboveRoot) ==
    IF segs = <<>> THEN stack
    ELSE KeptAll(Kept(stack, Head(segs), allowAboveRoot), Tail(segs), allowAboveRoot)

\* normalize of the path library, for paths without a drive or a share:
\* the kept segments joined, "." for an empty relative path, the trailing
\* separator kept, the leading one put back.
normalize(os, path) ==
    LET isAbsolute == path[1] \in Seps(os)
        trailingSeparator == path[Len(path)] \in Seps(os)
        body == JoinWith(KeptAll(<<>>, SplitOn(path, Seps(os)), ~isAbsolute), Sep(os))
    IN  (IF isAbsolute THEN <<Sep(os)>> ELSE <<>>) \o
        (IF body = <<>>
         THEN (IF isAbsolute THEN <<>> ELSE <<".">>)
         ELSE IF trailingSeparator THEN Append(body, Sep(os)) ELSE body)

\* join of the path library, for two arguments: the non-empty ones with a
\* separator between them, normalized; "." when both are empty.
join(os, a, b) ==
    LET joined == IF a = <<>> THEN b
                  ELSE IF b = <<>> THEN a
                  ELSE a \o <<Sep(os)>> \o b
    IN  IF joined = <<>> THEN <<".">> ELSE normalize(os, joined)

\* A directory entry that is a regular file, with the text it decodes to.
File(name, contents) ==
    [name |-> name, kind |-> "file", contents |-> contents, entries |-> <<>>]

\* A directory entry that is a directory, with its own entries in the order
\* readDirSync yields them.
Dir(name, entries) ==
    [name |-> name, kind |-> "dir", contents |-> <<>>, entries |-> entries]

\* A directory entry that is neither: a symbolic link.
Link(name) ==
    [name |-> name, kind |-> "symlink", contents |-> <<>>, entries |-> <<>>]

\* A closure that holds no text.
StaticListenerEmpty(contents, extension) ==
    [kind |-> "static", contents |-> <<>>, extension |-> extension]

\* The listener useStatic binds: a closure over the file's text and extension.
StaticListener(contents, extension) ==
    [kind |-> "static", contents |-> contents, extension |-> extension]

\* The else-if branch without the index.html case: every file is bound
\* where join put it.
bindFileUnfolded(rs, os, entry, pathnameRoute) ==
    LET splitFileName == SplitOn(entry.name, {"."})
        extension == splitFileName[Len(splitFileName)]
    IN  get(rs, replaceAll(pathnameRoute, "\\", "/"), StaticListener(entry.contents, extension))

\* The else-if branch for a file: where its route is, and the call of get.
bindFile(rs, os, entry, pathnameRoute) ==
    LET splitFileName == SplitOn(entry.name, {"."})
        extension == splitFileName[Len(splitFileName)]
        name == JoinWith(SubSeq(splitFileName, 1, Len(splitFileName) - 1), ".")
        route == IF name = <<"i","n","d","e","x">> /\ extension = <<"h","t","m","l">>
                 THEN join(os, pathnameRoute, <<".", ".">>)
                 ELSE pathnameRoute
    IN  get(rs, replaceAll(route, "\\", "/"), StaticListener(entry.contents, extension))

\* What readFileSync and the decoder hand back: the text of the file at
\* pathname.
Read(pathname, text) == [file |-> pathname, text |-> text]

\* The outcome of a walk: the table it leaves, the error it throws and the
\* files it read, in the order it read them.
Walked(rs, thrown, files) == [routes |-> rs, thrown |-> thrown, reads |-> files]

\* A walk that takes back the routes it pushed when an error ends it.
RECURSIVE walkUndone(_, _, _, _, _, _)
walkUndone(rs, os, staticDirectory, dir, staticRoute, k) ==
    IF k > Len(dir) THEN Walked(rs, NoError, <<>>)
    ELSE LET entry == dir[k]
             pathname == join(os, staticDirectory, entry.name)
             pathnameRoute == join(os, staticRoute, entry.name)
             bound == bindFile(rs, os, entry, pathnameRoute)
             out == IF entry.kind = "dir"
                    THEN walkUndone(rs, os, pathname, entry.entries, pathnameRoute, 1)
                    ELSE IF entry.kind = "file"
                         THEN Walked(bound.routes, bound.thrown,
                                     <<Read(pathname, entry.contents)>>)
                         ELSE Walked(rs, NoError, <<>>)
             rest == walkUndone(out.routes, os, staticDirectory, dir, staticRoute, k + 1)
         IN  IF out.thrown # NoError THEN Walked(rs, out.thrown, out.reads)
             ELSE IF rest.thrown # NoError
                  THEN Walked(rs, rest.thrown, out.reads \o rest.reads)
                  ELSE Walked(rest.routes, rest.thrown, out.reads \o rest.reads)

\* The for loop of useStatic from entry k of dir on, dir being what
\* readDirSync yields for staticDirectory: a directory is walked by a
\* recursive call, a file is read and bound, anything else is passed over;
\* the first error thrown ends the walk and the routes pushed before it stay.
RECURSIVE walk(_, _, _, _, _, _)
walk(rs, os, staticDirectory, dir, staticRoute, k) ==
    IF k > Len(dir) THEN Walked(rs, NoError, <<>>)
    ELSE LET entry == dir[k]
             pathname == join(os, staticDirectory, entry.name)
             pathnameRoute == join(os, staticRoute, entry.name)
             bound == bindFile(rs, os, entry, pathnameRoute)
             out == IF entry.kind = "dir"
                    THEN walk(rs, os, pathname, entry.entries, pathnameRoute, 1)
                    ELSE IF entry.kind = "file"
                         THEN Walked(bound.routes, bound.thrown,
                                     <<Read(pathname, entry.contents)>>)
                         ELSE Walked(rs, NoError, <<>>)
             rest == walk(out.routes, os, staticDirectory, dir, staticRoute, k + 1)
         IN  IF out.thrown # NoError THEN out
             ELSE Walked(rest.routes, rest.thrown, out.reads \o rest.reads)

\* useStatic on a host whose file system is fs.
useStatic(rs, os, fs, staticDirectory, staticRoute) ==
    walk(rs, os, staticDirectory, fs[staticDirectory], staticRoute, 1)

----------------------------------------------------------------------------
(* The values the calls are made with. *)

\* Paths passed to the registration methods.
Paths == {<<"/","a">>, <<"/","b">>}

\* The listener function passed to a registration call.  Every call passes a
\* function of its own: the one passed when the table holds n routes is
\* listener n + 1, so no two routes of a table share a listener.
Listener(rs) == [kind |-> "listener", id |-> Len(rs) + 1]

\* The initial value of ServerShell.middleware: () => {}.
NoopHook == [kind |-> "hook", id |-> "noop"]

\* Hook functions passed to use.
Hooks == {[kind |-> "hook", id |-> "m1"], [kind |-> "hook", id |-> "m2"]}

\* Directory trees on the host: a site with an index page and an image
\* folder, and a flat folder with a link in it.
SiteTree ==
    <<File(<<"i","n","d","e","x",".","h","t","m","l">>, <<"h","i">>),
      Dir(<<"i","m","g">>, <<File(<<"l","o","g","o",".","p","n","g">>, <<"p">>)>>)>>

FlatTree ==
    <<File(<<"a">>, <<"x">>), Link(<<"l">>), File(<<"b">>, <<"y">>)>>

\* The file system of the host: the directories useStatic is pointed at.
Disk ==
    [d \in {<<"s","i","t","e">>, <<"f","l","a","t">>} |->
        IF d = <<"s","i","t","e">> THEN SiteTree ELSE FlatTree]

\* Route prefixes passed to useStatic.
StaticRoutes == {<<"/","a">>, <<"/">>}

\* More trees: index pages one and two directories down next to a page that
\* is no index; names that come close to index.html; names without a dot,
\* one of them with a backslash in it, and a link.
PagesTree ==
    <<Dir(<<"a","s","s","e","t","s">>,
          <<File(<<"i","n","d","e","x",".","h","t","m","l">>, <<"1">>),
            Dir(<<"d","o","c","s">>,
                <<File(<<"i","n","d","e","x",".","h","t","m","l">>, <<"2">>)>>)>>),
      File(<<"i","n","d","e","x",".","h","t","m">>, <<"3">>)>>

NearTree ==
    <<File(<<"i","n","d","e","x",".","h","t","m","l",".","g","z">>, <<"4">>),
      File(<<".","h","t","m","l">>, <<"5">>),
      File(<<"I","n","d","e","x",".","h","t","m","l">>, <<"6">>)>>

PlainTree ==
    <<File(<<"h","t","m","l">>, <<"7">>),
      Link(<<"l">>),
      File(<<"R","E","A","D","M","E">>, <<"8">>),
      File(<<"a","\\","b">>, <<"9">>)>>

\* A host with four directories: assets holds the site.
StaticDisk ==
    [d \in {<<"a","s","s","e","t","s">>, <<"p","u","b">>, <<"a","l","t">>, <<"e","t","c">>} |->
        CASE d = <<"a","s","s","e","t","s">> -> SiteTree
          [] d = <<"p","u","b">> -> PagesTree
          [] d = <<"a","l","t">> -> NearTree
          [] d = <<"e","t","c">> -> PlainTree]

\* A host with one directory of two files, which change while the shell
\* runs.
LiveTree ==
    <<File(<<"i","n","d","e","x",".","h","t","m","l">>, <<"h","i">>),
      File(<<"t",".","j","s">>, <<"t","t">>)>>

LiveDisk == [d \in {<<"w","w","w">>} |-> LiveTree]

\* The text another program writes to a file.
Texts == {<<"y","o">>}

\* The route prefixes the directories are bound under.
StaticPrefixes ==
    {<<"/","s","i","t","e">>, <<"/","s","t","a","t","i","c">>, <<"/">>}

\* Paths bound by hand before and between the useStatic calls.
HandPaths ==
    {<<"/","s","i","t","e">>,
     <<"/","s","i","t","e","/","a","s","s","e","t","s","/","d","o","c","s">>}

\* The hosts the shell runs on.
Platforms == {"posix", "windows"}

\* No function: the listener field of a call that takes none.
NoFn == [kind |-> "none", id |-> "none"]

\* The record of a setup call: what was called with what, the table before
\* the call, and the error the call threw.
Called(op, path, fn, dir, before, thrown) ==
    [op |-> op, path |-> path, fn |-> fn, dir |-> dir, before |-> before,
     thrown |-> thrown]

NoCall == Called("none", <<>>, NoFn, <<>>, <<>>, NoError)

----------------------------------------------------------------------------
(* Setup actions.  Each is one call of a public method, which runs to its   *)
(* return or its throw without interruption.  rec says whether the call is  *)
(* written to the history variable, paths which paths the call may name.    *)

\* The history after a call: the call's record when rec, else unchanged.
Recorded(rec, op, path, fn, dir, thrown) ==
    IF rec THEN Called(op, path, fn, dir, routes, thrown) ELSE call

Get(rec, paths) ==
    \E path \in paths :
        LET out == get(routes, path, Listener(routes)) IN
        /\ Len(out.routes) <= MaxRoutes
        /\ routes' = out.routes
        /\ call' = Recorded(rec, "get", path, Listener(routes), <<>>, out.thrown)
        /\ UNCHANGED <<middleware, reqs, disk, reads, lookup>>

Post(rec, paths) ==
    \E path \in paths :
        LET out == post(routes, path, Listener(routes)) IN
        /\ Len(out.routes) <= MaxRoutes
        /\ routes' = out.routes
        /\ call' = Recorded(rec, "post", path, Listener(routes), <<>>, out.thrown)
        /\ UNCHANGED <<middleware, reqs, disk, reads, lookup>>

Options(rec, paths) ==
    \E path \in paths :
        LET out == options(routes, path, Listener(routes)) IN
        /\ Len(out.routes) <= MaxRoutes
        /\ routes' = out.routes
        /\ call' = Recorded(rec, "options", path, Listener(routes), <<>>, out.thrown)
        /\ UNCHANGED <<middleware, reqs, disk, reads, lookup>>

Put(rec, paths) ==
    \E path \in paths :
        LET out == put(routes, path, Listener(routes)) IN
        /\ Len(out.routes) <= MaxRoutes
        /\ routes' = out.routes
        /\ call' = Recorded(rec, "put", path, Listener(routes), <<>>, out.thrown)
        /\ UNCHANGED <<middleware, reqs, disk, reads, lookup>>

Delete(rec, paths) ==
    \E path \in paths :
        LET out == delete(routes, path, Listener(routes)) IN
        /\ Len(out.routes) <= MaxRoutes
        /\ routes' = out.routes
        /\ call' = Recorded(rec, "delete", path, Listener(routes), <<>>, out.thrown)
        /\ UNCHANGED <<middleware, reqs, disk, reads, lookup>>

Any(rec, paths) ==
    \E path \in paths :
        LET out == any(routes, path, Listener(routes)) IN
        /\ Len(out.routes) <= MaxRoutes
        /\ routes' = out.routes
        /\ call' = Recorded(rec, "any", path, Listener(routes), <<>>, out.thrown)
        /\ UNCHANGED <<middleware, reqs, disk, reads, lookup>>

\* use that keeps the hook already set and drops the new one.
UseFirst(rec) ==
    \E hook \in Hooks :
        /\ middleware' = IF middleware = NoopHook THEN hook ELSE middleware
        /\ call' = Recorded(rec, "use", <<>>, hook, <<>>, NoError)
        /\ UNCHANGED <<routes, reqs, disk, reads, lookup>>

\* use(middleware)
Use(rec) ==
    \E hook \in Hooks :
        /\ middleware' = hook
        /\ call' = Recorded(rec, "use", <<>>, hook, <<>>, NoError)
        /\ UNCHANGED <<routes, reqs, disk, reads, lookup>>

\* The names of the entries of dir, at every depth.
RECURSIVE Names(_)
Names(dir) ==
    IF dir = <<>> THEN {}
    ELSE {Head(dir).name} \cup Names(Head(dir).entries) \cup Names(Tail(dir))

\* A directory the host can hold: Windows allows no backslash in a name.
OnHost(os, dir) ==
    os = "windows" => \A name \in Names(dir) : \A k \in 1..Len(name) : name[k] # "\\"

\* useStatic(staticDirectory, staticRoute), with a route prefix of prefixes,
\* on a host of platforms; kept says whether the history of reads is written.
UseStatic(rec, kept, prefixes, platforms) ==
    \E staticDirectory \in DOMAIN disk, staticRoute \in prefixes, os \in platforms :
        LET out == useStatic(routes, os, disk, staticDirectory, staticRoute) IN
        /\ OnHost(os, disk[staticDirectory])
        /\ Len(out.routes) <= MaxRoutes
        /\ routes' = out.routes
        /\ call' = Recorded(rec, "useStatic", staticRoute, NoFn, disk[staticDirectory],
                            out.thrown)
        /\ reads' = IF kept THEN out.reads ELSE reads
        /\ UNCHANGED <<middleware, reqs, disk, lookup>>

\* Another program of the host overwrites a file.
Write ==
    \E d \in DOMAIN disk, text \in Texts :
        \E k \in 1..Len(disk[d]) :
            /\ disk[d][k].kind = "file"
            /\ disk[d][k].contents # text
            /\ disk' = [disk EXCEPT ![d][k].contents = text]
            /\ UNCHANGED <<routes, middleware, call, reqs, reads, lookup>>

\* Another program of the host removes a file.
Remove ==
    \E d \in DOMAIN disk :
        \E k \in 1..Len(disk[d]) :
            /\ disk[d][k].kind = "file"
            /\ disk' = [disk EXCEPT ![d] = SubSeq(@, 1, k - 1) \o SubSeq(@, k + 1, Len(@))]
            /\ UNCHANGED <<routes, middleware, call, reqs, reads, lookup>>

----------------------------------------------------------------------------
(* The request handler that listen passes to Deno.serve.  It is an async    *)
(* function: it runs without interruption up to an await, and the only      *)
(* await is on the promise of a selected route's callback.                  *)

\* The origin of every request URL.
Origin == <<"h","t","t","p",":","/","/","h">>

\* new URL(url).pathname, for a URL of Origin whose path needs no escaping:
\* what follows the origin, up to the query or the fragment.
Pathname(url) ==
    Before(SubSeq(url, Len(Origin) + 1, Len(url)), {"?", "#"})

\* The request targets and methods the host passes in.
Targets == {<<"/","a","?","x">>, <<"/","c">>}

RequestMethods ==
    {GET, <<"P","o","s","t">>, PUT, <<"d","e","l","e","t","e">>, OPTIONS,
     <<"a","n","y">>, <<"H","E","A","D">>}

\* No route: the origin of the default payload.
NoRoute == Route(<<>>, <<>>, NoFn)

\* The error a hook or a listener raises: a value of its own.
Raised(fn) == [name |-> "Error", by |-> fn]

\* No error reached the host.
NoFailure == [name |-> "none", by |-> NoFn]

\* A handler invocation that has not started.
Idle ==
    [phase |-> "idle", url |-> <<>>, reqMethod |-> <<>>, pathname |-> <<>>,
     method |-> <<>>, returnvalue |-> [body |-> <<>>, init |-> [headers |-> [ContentType |-> ""], status |-> 0]],
     from |-> NoRoute, i |-> 0, log |-> <<>>, responses |-> <<>>, error |-> NoFailure,
     table |-> <<>>]

Digits == <<"1","2","3","4","5","6","7","8","9">>

\* A closure of useStatic that offers the file as a download.
PayloadDownload(callback) ==
    IF callback.kind = "static"
    THEN [body |-> callback.contents,
          init |-> [headers |-> [ContentType |-> "application/octet-stream"],
                    status |-> 200]]
    ELSE [body |-> <<"h", Digits[callback.id]>>,
          init |-> [headers |-> [ContentType |-> "text/plain"], status |-> 200]]

\* What a callback resolves to: for a listener passed to a registration
\* call, a payload that names the listener; for the closure of useStatic,
\* the file's text with the content type of its extension.
Payload(callback) ==
    IF callback.kind = "static"
    THEN [body |-> callback.contents,
          init |-> [headers |-> [ContentType |-> MIMEFromExt(callback.extension)],
                    status |-> 200]]
    ELSE [body |-> <<"h", Digits[callback.id]>>,
          init |-> [headers |-> [ContentType |-> "text/plain"], status |-> 200]]

\* new Response(body, init)
Response(body, init) ==
    [body |-> body, headers |-> init.headers, status |-> init.status]

\* q with one more event in its log.
Logged(q, ev, who) == [q EXCEPT !.log = Append(@, [ev |-> ev, who |-> who])]

\* The initial returnvalue with the method left in upper case.
NotFoundUpper(pathname, method) ==
    [body |-> <<"C","a","n","n","o","t"," ">> \o method \o <<" ">> \o pathname,
     init |-> [headers |-> [ContentType |-> "text/html"], status |-> 404]]

\* The initial returnvalue: Cannot <method in lower case> <pathname>.
NotFound(pathname, method) ==
    [body |-> <<"C","a","n","n","o","t"," ">> \o toLowerCase(method) \o <<" ">> \o pathname,
     init |-> [headers |-> [ContentType |-> "text/html"], status |-> 404]]

\* A handler that catches the error and answers 500.
Recover(q, err) ==
    [q EXCEPT !.phase = "done",
              !.responses = Append(@, [body |-> <<>>, headers |-> [ContentType |-> "text/html"], status |-> 500])]

\* An error raised inside the handler: nothing catches it, the handler's
\* promise rejects with it.
Propagate(q, err) ==
    [q EXCEPT !.phase = "failed", !.error = err]

\* fn raises its error inside the handler.
Throws(q, fn) == Propagate(Logged(q, "throw", fn), Raised(fn))

\* A handler that does not call the hook.
HookSkipped(q, hook, throws) == q

\* this.middleware(req, info)
HookCall(q, hook, throws) ==
    IF throws THEN Throws(Logged(q, "hook", hook), hook)
    ELSE Logged(q, "hook", hook)

\* A return that passes the body on and drops the init.
RespondBare(q) ==
    [q EXCEPT !.phase = "done",
              !.responses = Append(@, Response(q.returnvalue.body, [headers |-> [ContentType |-> "text/plain"], status |-> 200]))]

\* return new Response(returnvalue.body, returnvalue.init)
Respond(q) ==
    [q EXCEPT !.phase = "done",
              !.responses = Append(@, Response(q.returnvalue.body, q.returnvalue.init))]

\* A loop body that selects every route of the request's pathname, whatever
\* its method.
SelectsPathOnly(route, pathname, method) ==
    route.path = pathname

\* The two branches of the loop body: the route is selected when it equals
\* the request's pathname and method, or has the pathname and method ANY.
Selects(route, pathname, method) ==
    IF equals(route, pathname, method) THEN TRUE
    ELSE IF route.path = pathname /\ route.method = ANY THEN TRUE
    ELSE FALSE

\* route.callback(req, info): the callback starts; it throws at once, or
\* hands back a promise the handler awaits.
Invoke(q, route, i, throws) ==
    IF throws THEN Throws([Logged(q, "call", route) EXCEPT !.i = i], route.callback)
    ELSE [Logged(q, "call", route) EXCEPT !.phase = "awaiting", !.i = i]

\* for (const route of this.routes), from index i on, up to the next await
\* or the return.  The iterator reads the array as it is at each step.
RECURSIVE Loop(_, _, _, _)
Loop(q, rs, i, throws) ==
    IF i > Len(rs) THEN Respond(q)
    ELSE IF Selects(rs[i], q.pathname, q.method)
         THEN Invoke(Logged(q, "examine", rs[i]), rs[i], i, throws)
         ELSE Loop(Logged(q, "examine", rs[i]), rs, i + 1, throws)

\* The handler from its start to its first await, return or throw.
Handle(rs, hook, url, reqMethod, hookThrows, throws) ==
    LET q0 == [Idle EXCEPT !.phase = "running", !.url = url, !.reqMethod = reqMethod,
                           !.pathname = Pathname(url),
                           !.method = toUpperCase(reqMethod)]
        q1 == HookCall(q0, hook, hookThrows)
    IN  IF q1.phase = "failed" THEN q1
        ELSE Loop([q1 EXCEPT !.returnvalue = NotFound(q1.pathname, q1.method)],
                  rs, 1, throws)

\* The handler from the settling of the awaited promise on: a rejection
\* propagates, a payload is assigned to returnvalue and the loop goes on.
Resume(q, rs, rejects, throws) ==
    IF rejects THEN Throws(q, rs[q.i].callback)
    ELSE Loop([q EXCEPT !.phase = "running",
                        !.returnvalue = Payload(rs[q.i].callback),
                        !.from = rs[q.i]],
              rs, q.i + 1, throws)

\* History: q after a step of the handler, with the table the step ran on.
Ran(q) == [q EXCEPT !.table = routes]

\* The host calls the handler with a request, once per request: a target of
\* targets, a method of methods.  The initial hook never throws; a hook
\* passed to use may.
Request(targets, methods) ==
    \E r \in DOMAIN reqs, target \in targets, reqMethod \in methods,
       hookThrows \in BOOLEAN, throws \in BOOLEAN :
        /\ reqs[r].phase = "idle"
        /\ hookThrows => middleware # NoopHook
        /\ reqs' = [reqs EXCEPT ![r] =
                       Ran(Handle(routes, middleware, Origin \o target, reqMethod,
                                  hookThrows, throws))]
        /\ UNCHANGED <<routes, middleware, call, disk, reads, lookup>>

\* The promise a handler awaits settles.
Settle ==
    \E r \in DOMAIN reqs, rejects \in BOOLEAN, throws \in BOOLEAN :
        /\ reqs[r].phase = "awaiting"
        /\ reqs' = [reqs EXCEPT ![r] = Ran(Resume(reqs[r], routes, rejects, throws))]
        /\ UNCHANGED <<routes, middleware, call, disk, reads, lookup>>

----------------------------------------------------------------------------
(* Specifications. *)

\* No call of MIMEFromExt.
NoLookup == [extension |-> <<>>, type |-> "none"]

\* The extensions of the case labels of MIMEFromExt.
Labels ==
    {<<"h","t","m","l">>, <<"h","t","m">>, <<"c","s","s">>, <<"j","s">>, <<"m","j","s">>,
     <<"t","x","t">>, <<"s","v","g">>, <<"a","p","n","g">>, <<"p","n","g">>,
     <<"g","i","f">>, <<"j","p","g">>, <<"j","p","e","g">>, <<"i","c","o">>,
     <<"m","p","4">>, <<"m","p","e","g">>, <<"o","g","v">>, <<"m","p","3">>,
     <<"o","g","a">>, <<"j","s","o","n">>, <<"x","m","l">>, <<"z","i","p">>,
     <<"7","z">>, <<"r","a","r">>, <<"t","a","r">>, <<"g","z">>, <<"p","h","p">>,
     <<"p","d","f">>, <<"s","h">>, <<"o","t","f">>, <<"t","t","f">>}

\* The letters other extensions are spelled with.
ExtLetters == {"h", "t", "m", "l", "x", "y", "z"}

\* The strings of at most n letters of ExtLetters.
RECURSIVE Words(_)
Words(n) ==
    IF n = 0 THEN {<<>>}
    ELSE Words(n - 1) \cup {Append(w, c) : w \in Words(n - 1), c \in ExtLetters}

\* The extensions MIMEFromExt is called with: the labels, the labels in
\* upper case and with a capital, and every short word.
Extensions ==
    Labels \cup {toUpperCase(e) : e \in Labels}
           \cup {toUpperCase(SubSeq(e, 1, 1)) \o Tail(e) : e \in Labels}
           \cup Words(MaxExtLen)

\* A caller is about to call MIMEFromExt with an extension.
MimeInit ==
    /\ routes = <<>>
    /\ middleware = NoopHook
    /\ call = NoCall
    /\ reqs = [r \in {} |-> Idle]
    /\ disk = Disk
    /\ reads = <<>>
    /\ lookup \in {[extension |-> e, type |-> "none"] : e \in Extensions}

\* MIMEFromExt(extension) returns.
Lookup ==
    /\ lookup.type = "none"
    /\ lookup' = [lookup EXCEPT !.type = MIMEFromExt(lookup.extension)]
    /\ UNCHANGED <<routes, middleware, call, reqs, disk, reads>>

MimeNext == Lookup

MimeSpec == MimeInit /\ [][MimeNext]_vars

\* The shell as constructed on a host whose file system is fs, with a
\* handler invocation per request of ids.
StartOn(ids, fs) ==
    /\ routes = <<>>
    /\ middleware = NoopHook
    /\ call = NoCall
    /\ reqs = [r \in ids |-> Idle]
    /\ disk = fs
    /\ reads = <<>>
    /\ lookup = NoLookup

Start(ids) == StartOn(ids, Disk)

\* Setup: no request arrives.
SetupInit == Start({})

\* The setup calls alone, each written to the history.
SetupNext ==
    \/ Get(TRUE, Paths)
    \/ Post(TRUE, Paths)
    \/ Options(TRUE, Paths)
    \/ Put(TRUE, Paths)
    \/ Delete(TRUE, Paths)
    \/ Any(TRUE, Paths)
    \/ UseStatic(TRUE, FALSE, StaticRoutes, {"posix"})

SetupSpec == SetupInit /\ [][SetupNext]_vars

\* Paths the registration calls name while requests are served.
ServedPaths == {<<"/","a">>}

\* Serving: one request at a time.
Init == Start({"r1"})

\* Serving, with setup calls made at any time, before and between the
\* handler's steps.
Next ==
    \/ Get(FALSE, ServedPaths)
    \/ Post(FALSE, ServedPaths)
    \/ Options(FALSE, ServedPaths)
    \/ Put(FALSE, ServedPaths)
    \/ Delete(FALSE, ServedPaths)
    \/ Any(FALSE, ServedPaths)
    \/ Use(FALSE)
    \/ Request(Targets, RequestMethods)
    \/ Settle

Spec == Init /\ [][Next]_vars

\* Setup on the host with the four directories.
StaticInit == StartOn({}, StaticDisk)

\* Routes bound by hand and by useStatic, on either platform, each call
\* written to the history.
StaticNext ==
    \/ Get(TRUE, HandPaths)
    \/ Post(TRUE, HandPaths)
    \/ Any(TRUE, HandPaths)
    \/ UseStatic(TRUE, FALSE, StaticPrefixes, Platforms)

StaticSpec == StaticInit /\ [][StaticNext]_vars

\* Requests for the two files, in two spellings of the method.
LiveTargets == {<<"/","a","?","x">>, <<"/","a","/","t",".","j","s">>}

LiveMethods == {GET, <<"g","e","t">>}

\* Serving on the host whose files change.
LiveInit == StartOn({"r1"}, LiveDisk)

\* The directory is bound, once or again, its files are requested, and the
\* other programs of the host change them at any time.
LiveNext ==
    \/ UseStatic(TRUE, TRUE, Paths, Platforms)
    \/ Write
    \/ Remove
    \/ Request(LiveTargets, LiveMethods)
    \/ Settle

LiveSpec == LiveInit /\ [][LiveNext]_vars

\* Serving on the host whose files stay as they are.
TableInit == StartOn({"r1"}, LiveDisk)

\* Every operation of the shell: the calls that bind routes, each written
\* to the history, use, and the handler's steps.
TableNext ==
    \/ Get(TRUE, ServedPaths)
    \/ Post(TRUE, Paths)
    \/ Any(TRUE, ServedPaths)
    \/ Use(FALSE)
    \/ UseStatic(TRUE, FALSE, ServedPaths, {"posix"})
    \/ Request(LiveTargets, LiveMethods)
    \/ Settle

TableSpec == TableInit /\ [][TableNext]_vars

\* The requests the host makes while others are in flight: one target, in
\* two spellings of the method.
BusyTargets == {<<"/","a","?","x">>}

BusyMethods == {GET, <<"P","o","s","t">>}

\* Serving two requests at a time.
ConcurrentInit == Start({"r1", "r2"})

\* Two handler invocations whose steps interleave with each other and with
\* setup calls; of the setup calls only use is written to the history.
ConcurrentNext ==
    \/ Get(FALSE, ServedPaths)
    \/ Post(FALSE, ServedPaths)
    \/ Any(FALSE, Paths)
    \/ Use(TRUE)
    \/ Request(BusyTargets, BusyMethods)
    \/ Settle

ConcurrentSpec == ConcurrentInit /\ [][ConcurrentNext]_vars

----------------------------------------------------------------------------
(* Claims about the route table. *)

\* The routes of table rs bound to path with method.
Bound(rs, path, method) ==
    {k \in 1..Len(rs) : rs[k].path = path /\ rs[k].method = method}

\* The method a registration method binds.
MethodOf(op) ==
    CASE op = "get" -> GET
      [] op = "post" -> POST
      [] op = "options" -> OPTIONS
      [] op = "put" -> PUT
      [] op = "delete" -> DELETE
      [] op = "any" -> ANY

ConcreteOps == {"get", "post", "options", "put", "delete"}

\* The last call failed with the duplicate-binding error and left the table
\* as it was.
Rejected ==
    /\ call.thrown = RouteAlreadyBoundError(call.path)
    /\ routes = call.before

\* The last call returned and pushed its route at the end of the table.
Accepted ==
    /\ call.thrown = NoError
    /\ routes = Append(call.before, Route(call.path, MethodOf(call.op), call.fn))

\* C1: after any sequence of registration calls, failed ones included, every
\* path of the table has at most one route per concrete method and no ANY
\* route, or exactly one ANY route and no route of a concrete method.
C1_OnePerMethodOrOneAny ==
    \A k \in 1..Len(routes) :
        LET path == routes[k].path IN
        \/ /\ Bound(routes, path, ANY) = {}
           /\ \A m \in ConcreteMethods : Cardinality(Bound(routes, path, m)) <= 1
        \/ /\ Cardinality(Bound(routes, path, ANY)) = 1
           /\ \A m \in ConcreteMethods : Bound(routes, path, m) = {}

\* C1's case: a table with a path of two concrete methods and a path bound
\* to ANY, reached through a call that failed.
C1_Witness ==
    /\ call.thrown # NoError
    /\ \E p \in Paths : Bound(routes, p, ANY) # {}
    /\ \E p \in Paths, m1, m2 \in ConcreteMethods :
          m1 # m2 /\ Bound(routes, p, m1) # {} /\ Bound(routes, p, m2) # {}

\* C3: a call that binds a concrete method to a path already bound to that
\* method fails with RouteAlreadyBoundError and leaves the table as it was,
\* same routes in the same order.
C3_DuplicateRejected ==
    (/\ call.op \in ConcreteOps
     /\ Bound(call.before, call.path, MethodOf(call.op)) # {})
        => Rejected

\* C3's case: post on a path already bound to POST has failed.
C3_Witness ==
    /\ call.op = "post"
    /\ Bound(call.before, call.path, POST) # {}
    /\ call.thrown = RouteAlreadyBoundError(call.path)

\* C4: on a path bound to ANY every concrete registration fails, and on a
\* path bound to a concrete method any fails; the failed call leaves the
\* table as it was.
C4_AnyExcludesConcrete ==
    /\ (/\ call.op \in ConcreteOps
        /\ Bound(call.before, call.path, ANY) # {})
           => Rejected
    /\ (/\ call.op = "any"
        /\ \E m \in ConcreteMethods : Bound(call.before, call.path, m) # {})
           => Rejected

\* C4's case: both orders are in one table; a path bound to ANY on which put
\* then failed, beside a path bound to a concrete method.
C4_Witness ==
    /\ call.op = "put"
    /\ Bound(call.before, call.path, ANY) # {}
    /\ call.thrown = RouteAlreadyBoundError(call.path)
    /\ \E p \in Paths, m \in ConcreteMethods : Bound(routes, p, m) # {}

----------------------------------------------------------------------------
(* Claims about the request handler. *)

\* The routes, or hooks, of the events ev in the log of q, in order.
RECURSIVE Of(_, _)
Of(log, ev) ==
    IF log = <<>> THEN <<>>
    ELSE (IF Head(log).ev = ev THEN <<Head(log).who>> ELSE <<>>) \o Of(Tail(log), ev)

\* The routes whose callback the handler has invoked for q.
Calls(q) == Of(q.log, "call")

\* The handler has run to its end: it returned, or a callback's error ended it.
Finished(q) ==
    \/ q.phase = "done"
    \/ q.phase = "failed" /\ Calls(q) # <<>>

\* The routes of table rs a request for pathname and method can go to.
Matching(rs, pathname, method) ==
    {k \in 1..Len(rs) :
        rs[k].path = pathname /\ (rs[k].method = method \/ rs[k].method = ANY)}

\* resolve: the first route of rs, in insertion order, whose path is pathname
\* and whose method is the request's or ANY; NoRoute when there is none.
FirstMatch(rs, pathname, method) ==
    IF Matching(rs, pathname, method) = {} THEN NoRoute
    ELSE rs[CHOOSE k \in Matching(rs, pathname, method) :
                \A j \in Matching(rs, pathname, method) : k <= j]

\* The response that carries the payload of callback unmodified.
Carries(callback) ==
    [body |-> Payload(callback).body,
     headers |-> Payload(callback).init.headers,
     status |-> Payload(callback).init.status]

\* The request that q handles goes to route b's handler and to no other.
GoesTo(q, b) ==
    /\ Calls(q) = <<b>>
    /\ q.phase = "done" => q.from = b /\ q.responses = <<Carries(b.callback)>>

Cannot(reqMethod, path) ==
    [body |-> <<"C","a","n","n","o","t"," ">> \o toLowerCase(reqMethod) \o <<" ">> \o path,
     headers |-> [ContentType |-> "text/html"],
     status |-> 404]

\* C6: a request whose path and upper-cased method match no route is
\* answered with status 404, content type text/html and the body
\* Cannot <method in lower case> <path>.
C6_NotFoundResponse ==
    \A r \in DOMAIN reqs :
        LET q == reqs[r] IN
        (/\ q.phase = "done"
         /\ Matching(q.table, Pathname(q.url), toUpperCase(q.reqMethod)) = {})
            => q.responses = <<Cannot(q.reqMethod, Pathname(q.url))>>

\* C6's case: HEAD /c with /a bound is answered "Cannot head /c".
C6_Witness ==
    \E r \in DOMAIN reqs :
        LET q == reqs[r] IN
        /\ q.phase = "done"
        /\ q.table # <<>>
        /\ q.reqMethod = <<"H","E","A","D">>
        /\ q.responses =
             <<[body |-> <<"C","a","n","n","o","t"," ","h","e","a","d"," ","/","c">>,
                headers |-> [ContentType |-> "text/html"],
                status |-> 404]>>

\* C7: the handler calls the hook once for each request, before it examines
\* a route or invokes a callback, whether or not a route matches.
C7_HookOnceFirst ==
    \A r \in DOMAIN reqs :
        LET q == reqs[r] IN
        q.phase # "idle" =>
            /\ q.log # <<>>
            /\ q.log[1].ev = "hook"
            /\ Len(Of(q.log, "hook")) = 1

\* C7's case: a request that a route matched, its callback invoked after the
\* hook and after the routes before it were passed over.
C7_Witness ==
    \E r \in DOMAIN reqs :
        LET q == reqs[r] IN
        /\ Calls(q) # <<>>
        /\ Len(Of(q.log, "examine")) >= 2
        /\ Of(q.log, "hook") = <<[kind |-> "hook", id |-> "m1"]>>

\* C8: the payload the handler returns is that of the first route, in
\* insertion order, whose path is the request's and whose method is the
\* request's or ANY: the loop and first-match resolve select the same route.
C8_FirstMatchServed ==
    \A r \in DOMAIN reqs :
        LET q == reqs[r] IN
        q.phase = "done" =>
            /\ q.from = FirstMatch(q.table, q.pathname, q.method)
            /\ q.from # NoRoute => q.responses = <<Carries(q.from.callback)>>

\* C8's case: the request went to the third route of the table, the two
\* before it being passed over.
C8_Witness ==
    \E r \in DOMAIN reqs :
        LET q == reqs[r] IN
        /\ q.phase = "done"
        /\ Len(q.table) = 3
        /\ q.from = q.table[3]

\* C9: an error raised by the hook or by a callback is not caught: the
\* handler makes no response, neither the 404 nor a 500, and fails with that
\* very error.
C9_ErrorsPropagate ==
    \A r \in DOMAIN reqs :
        LET q == reqs[r] IN
        \A k \in 1..Len(Of(q.log, "throw")) :
            /\ q.phase = "failed"
            /\ q.responses = <<>>
            /\ q.error = Raised(Of(q.log, "throw")[k])

\* C9's case: the callback of a matched route has raised its error.
C9_Witness ==
    \E r \in DOMAIN reqs :
        LET q == reqs[r] IN
        /\ Calls(q) # <<>>
        /\ Of(q.log, "throw") = <<q.table[q.i].callback>>

\* C10: a request whose hook returns and whose callback, if a route matches,
\* completes without error gets exactly one response: the callback's payload
\* unmodified, or the 404 default when no route matches.
C10_OneResponse ==
    \A r \in DOMAIN reqs :
        LET q == reqs[r] IN
        (/\ q.phase \notin {"idle", "awaiting"}
         /\ Of(q.log, "throw") = <<>>)
            => /\ q.phase = "done"
               /\ q.responses =
                    <<IF Matching(q.table, q.pathname, q.method) = {}
                      THEN Cannot(q.reqMethod, q.pathname)
                      ELSE Carries(FirstMatch(q.table, q.pathname, q.method).callback)>>

\* C10's case: a request answered with the payload of the second listener.
C10_Witness ==
    \E r \in DOMAIN reqs :
        LET q == reqs[r] IN
        /\ q.phase = "done"
        /\ q.responses =
             <<[body |-> <<"h","2">>, headers |-> [ContentType |-> "text/plain"],
                status |-> 200]>>

----------------------------------------------------------------------------
(* Claims about the hook. *)

\* The hook passed to the most recent use call, the initial no-op before
\* any, where use is the only call written to the history.
LatestHook == IF call.op = "use" THEN call.fn ELSE NoopHook

\* C11: a request invokes the hook passed to the most recent use call (the
\* initial no-op when use was never called) and no other hook, then and in
\* every later step of its handling.
C11_LatestHookOnly ==
    [][\A r \in DOMAIN reqs :
          Of(reqs'[r].log, "hook") =
              IF reqs[r].phase = "idle" /\ reqs'[r].phase # "idle"
              THEN <<LatestHook>>
              ELSE Of(reqs[r].log, "hook")]_vars

\* C11's case: two requests were handled, one under hook m1 and one under
\* hook m2, so one of them came after a second use call.
C11_Witness ==
    /\ Of(reqs["r1"].log, "hook") = <<[kind |-> "hook", id |-> "m1"]>>
    /\ Of(reqs["r2"].log, "hook") = <<[kind |-> "hook", id |-> "m2"]>>

----------------------------------------------------------------------------
(* Claims about useStatic. *)

\* The regular files of dir in the order of the walk, each with the names
\* of the directories that lead to it from the root (at), its name and its
\* text.
RECURSIVE Files(_, _)
Files(dir, at) ==
    IF dir = <<>> THEN <<>>
    ELSE (CASE Head(dir).kind = "file" ->
                 <<[at |-> at, name |-> Head(dir).name, contents |-> Head(dir).contents]>>
            [] Head(dir).kind = "dir" -> Files(Head(dir).entries, Append(at, Head(dir).name))
            [] OTHER -> <<>>)
         \o Files(Tail(dir), at)

\* The route path of what lies at segs under prefix: prefix, and for every
\* segment a slash and the segment.
RECURSIVE Under(_, _)
Under(prefix, segs) ==
    IF segs = <<>> THEN prefix
    ELSE Under((IF prefix = <<"/">> THEN prefix ELSE Append(prefix, "/")) \o Head(segs),
               Tail(segs))

IndexHtml == <<"i","n","d","e","x",".","h","t","m","l">>

\* The routes the last call pushed.
Added == SubSeq(routes, Len(call.before) + 1, Len(routes))

\* C12: the files a useStatic call binds are bound in the order of the walk,
\* each as a GET route; a file named index.html at the route path of the
\* directory that holds it, whatever its depth, and a file of any other name
\* at another path.
C12_IndexAtParent ==
    call.op = "useStatic" =>
        /\ Len(Added) <= Len(Files(call.dir, <<>>))
        /\ call.thrown = NoError => Len(Added) = Len(Files(call.dir, <<>>))
        /\ \A k \in 1..Len(Added) :
              LET f == Files(call.dir, <<>>)[k] IN
              /\ Added[k].method = GET
              /\ f.name = IndexHtml => Added[k].path = Under(call.path, f.at)
              /\ f.name # IndexHtml => Added[k].path # Under(call.path, f.at)

\* C12's case: index pages one and two directories down were bound at the
\* route paths of their directories, and the page index.htm next to them at
\* a path of its own.
C12_Witness ==
    /\ call.op = "useStatic"
    /\ call.dir = PagesTree
    /\ call.thrown = NoError
    /\ Len(Added) = 3
    /\ Added[1].path = <<"/","s","t","a","t","i","c","/","a","s","s","e","t","s">>
    /\ Added[2].path = <<"/","s","t","a","t","i","c","/","a","s","s","e","t","s","/","d","o","c","s">>
    /\ Added[3].path = <<"/","s","t","a","t","i","c","/","i","n","d","e","x",".","h","t","m">>

C14_RouteIsPrefixAndPath ==
    call.op = "useStatic" =>
        \A k \in 1..Len(Added) :
            LET f == Files(call.dir, <<>>)[k] IN
            f.name # IndexHtml =>
                /\ Added[k].method = GET
                /\ Added[k].path = Under(call.path, Append(f.at, f.name))
                /\ f.name = <<"l","o","g","o",".","p","n","g">> =>
                      Payload(Added[k].callback).init.headers.ContentType = "image/png"

\* C15: the route of every file whose name has no dot answers with content
\* type text/plain, whatever the name is.
C15_NoDotIsTextPlain ==
    call.op = "useStatic" =>
        \A k \in 1..Len(Added) :
            LET f == Files(call.dir, <<>>)[k] IN
            (\A j \in 1..Len(f.name) : f.name[j] # ".") =>
                Payload(Added[k].callback).init.headers.ContentType = "text/plain"

\* C16: a useStatic call reads every file it visits once, the text the
\* file has at the call, and the closure it binds holds that text; a
\* request that goes to the route is answered with status 200 and the text
\* the closure holds, whatever the request's target and method spelling are
\* and whatever the file has become.
C16_ReadOnceServedAsBound ==
    /\ call.op = "useStatic" =>
          LET files == Files(call.dir, <<>>) IN
          /\ Len(reads) <= Len(files)
          /\ Len(reads) = Len(Added) + (IF call.thrown = NoError THEN 0 ELSE 1)
          /\ call.thrown = NoError => Len(reads) = Len(files)
          /\ \A j, k \in 1..Len(reads) : j # k => reads[j].file # reads[k].file
          /\ \A k \in 1..Len(reads) : reads[k].text = files[k].contents
          /\ \A k \in 1..Len(Added) : Added[k].callback.contents = reads[k].text
    /\ \A r \in DOMAIN reqs :
          LET q == reqs[r]
              b == FirstMatch(q.table, q.pathname, q.method)
          IN  (q.phase = "done" /\ b.callback.kind = "static") =>
                  q.responses =
                      <<[body |-> b.callback.contents,
                         headers |-> [ContentType |-> MIMEFromExt(b.callback.extension)],
                         status |-> 200]>>

\* C16's case: index.html was bound with the text hi, overwritten, and bound
\* again under a second prefix with the text yo; a request made after that
\* to the first route was answered hi.
C16_Witness ==
    LET q == reqs["r1"] IN
    /\ q.phase = "done"
    /\ Len(q.table) = 2
    /\ q.table[2].callback.contents = <<"y","o">>
    /\ q.from = q.table[1]
    /\ q.responses =
          <<[body |-> <<"h","i">>, headers |-> [ContentType |-> "text/html"],
             status |-> 200]>>

\* Where the binder is to bind file f under prefix: index.html at the route
\* path of its directory, any other file at its own path.
RouteOf(prefix, f) ==
    IF f.name = IndexHtml THEN Under(prefix, f.at)
    ELSE Under(prefix, Append(f.at, f.name))

\* Path has a GET or an ANY route in table rs.
Taken(rs, path) == Bound(rs, path, GET) \cup Bound(rs, path, ANY) # {}

\* C17: a useStatic call that comes to a file whose route path had a GET or
\* an ANY route before the call throws the RouteAlreadyBoundError of get
\* for the first such path, and the routes the table held before the call
\* are still its first routes, unchanged and in the same order.
C17_CollisionPropagates ==
    call.op = "useStatic" =>
        LET files == Files(call.dir, <<>>)
            hits == {k \in 1..Len(files) : Taken(call.before, RouteOf(call.path, files[k]))}
        IN  hits # {} =>
                /\ call.thrown =
                      [name |-> "RouteAlreadyBoundError",
                       route |-> RouteOf(call.path,
                                         files[CHOOSE k \in hits : \A j \in hits : k <= j])]
                /\ Len(routes) >= Len(call.before)
                /\ SubSeq(routes, 1, Len(call.before)) = call.before

\* C17's case: with two routes in the table, one of them ANY, useStatic
\* bound one index page and threw at the next, whose path the ANY route had.
C17_Witness ==
    /\ call.op = "useStatic"
    /\ Len(call.before) = 2
    /\ Bound(call.before, <<"/","s","i","t","e","/","a","s","s","e","t","s","/","d","o","c","s">>, ANY) # {}
    /\ call.thrown = [name |-> "RouteAlreadyBoundError",
                      route |-> <<"/","s","i","t","e","/","a","s","s","e","t","s","/","d","o","c","s">>]
    /\ Len(Added) = 1

----------------------------------------------------------------------------
(* Claims about MIMEFromExt. *)

\* The fixed table: extension and content type.
MimeTable ==
    {<<<<"h","t","m","l">>, "text/html">>, <<<<"h","t","m">>, "text/html">>,
     <<<<"c","s","s">>, "text/css">>,
     <<<<"j","s">>, "text/javascript">>, <<<<"m","j","s">>, "text/javascript">>,
     <<<<"t","x","t">>, "text/plain">>,
     <<<<"s","v","g">>, "image/svg+xml">>, <<<<"a","p","n","g">>, "image/apng">>,
     <<<<"p","n","g">>, "image/png">>, <<<<"g","i","f">>, "image/gif">>,
     <<<<"j","p","g">>, "image/jpeg">>, <<<<"j","p","e","g">>, "image/jpeg">>,
     <<<<"i","c","o">>, "image/vnd.microsoft.icon">>,
     <<<<"m","p","4">>, "video/mp4">>, <<<<"m","p","e","g">>, "video/mpeg">>,
     <<<<"o","g","v">>, "video/ogg">>,
     <<<<"m","p","3">>, "audio/mpeg">>, <<<<"o","g","a">>, "audio/ogg">>,
     <<<<"j","s","o","n">>, "application/json">>, <<<<"x","m","l">>, "application/xml">>,
     <<<<"z","i","p">>, "application/zip">>,
     <<<<"7","z">>, "application/x-7z-compressed">>,
     <<<<"r","a","r">>, "application/vnd.rar">>, <<<<"t","a","r">>, "application/x-tar">>,
     <<<<"g","z">>, "application/gzip">>,
     <<<<"p","h","p">>, "application/x-httpd-php">>,
     <<<<"p","d","f">>, "application/pdf">>, <<<<"s","h">>, "application/x-sh">>,
     <<<<"o","t","f">>, "font/otf">>, <<<<"t","t","f">>, "font/ttf">>}

\* C18: MIMEFromExt returns for every extension: for an extension of the
\* table, spelled as the table spells it, the table's content type, and
\* text/plain for every other string, other spellings of the case included.
C18_TableOrTextPlain ==
    lookup.type # "none" =>
        IF \E row \in MimeTable : row[1] = lookup.extension
        THEN <<lookup.extension, lookup.type>> \in MimeTable
        ELSE lookup.type = "text/plain"

\* C18's case: MIMEFromExt("HTML") has returned text/plain.
C18_Witness ==
    lookup = [extension |-> <<"H","T","M","L">>, type |-> "text/plain"]

----------------------------------------------------------------------------
(* Claims about the table over time. *)

\* The methods a request can carry once upper-cased.
AskedMethods == ConcreteMethods \cup {ANY, <<"H","E","A","D">>}

\* C19: every step leaves the routes of the table where they are and as
\* they are; a call of a registration method that returns puts one route
\* after them and one that throws puts none, useStatic puts its routes after
\* them, and use and the handler's steps put none; so a path and a method
\* that resolve to a route resolve to the same route after the step.
C19_TableOnlyGrows ==
    [][/\ Len(routes') >= Len(routes)
       /\ SubSeq(routes', 1, Len(routes)) = routes
       /\ (call' # call /\ call'.op \in {"get", "post", "any"}) =>
              routes' = IF call'.thrown = NoError
                        THEN Append(routes, Route(call'.path, MethodOf(call'.op), call'.fn))
                        ELSE routes
       /\ call' = call => routes' = routes
       /\ \A k \in 1..Len(routes) : \A m \in AskedMethods :
              FirstMatch(routes, routes[k].path, m) # NoRoute =>
                  FirstMatch(routes', routes[k].path, m) =
                      FirstMatch(routes, routes[k].path, m)]_vars

\* C19's case: a table of a route bound by hand and two bound by useStatic
\* after it, then a call that failed, a use call and a request served.
C19_Witness ==
    /\ Len(routes) = 3
    /\ routes[1].callback.kind = "listener"
    /\ routes[2].callback.kind = "static"
    /\ routes[3].callback.kind = "static"
    /\ call.thrown # NoError
    /\ middleware # NoopHook
    /\ reqs["r1"].phase = "done"
    /\ reqs["r1"].from = routes[3]

----------------------------------------------------------------------------
(* Claims about the handler among other requests and calls. *)

\* C20: the handler invokes the callback of at most one route for a request,
\* whatever the table and whatever requests and registration calls run while
\* the callback's promise is pending: once a callback has been invoked for a
\* request, no other route of the table, as it is then or as it has become
\* since, is selected for that request.
C20_AtMostOneHandler ==
    \A r \in DOMAIN reqs :
        /\ Len(Calls(reqs[r])) <= 1
        /\ Calls(reqs[r]) # <<>> =>
               \A k \in 1..Len(routes) :
                   Selects(routes[k], reqs[r].pathname, reqs[r].method) =>
                       routes[k] = Calls(reqs[r])[1]

\* C20's case: the callback invoked for r1 is pending, a registration call
\* has returned since, and the handler has served r2 from the longer table.
C20_Witness ==
    /\ reqs["r1"].phase = "awaiting"
    /\ Len(Calls(reqs["r1"])) = 1
    /\ Len(reqs["r1"].table) < Len(routes)
    /\ reqs["r2"].phase = "done"
    /\ Len(Calls(reqs["r2"])) = 1
    /\ reqs["r2"].table = routes

----------------------------------------------------------------------------
(* Claims about a useStatic call that fails. *)

\* C21: a useStatic call that throws RouteAlreadyBoundError leaves the
\* routes the table held before the call as they were, and after them one
\* GET route for each file the walk came to before the file whose path was
\* taken, in the order of the walk, each serving its file's text; the error
\* names the path of the next file of the walk, which has a GET or an ANY
\* route already, and neither that file nor a later one is given a route.
C21_NoRollback ==
    (call.op = "useStatic" /\ call.thrown # NoError) =>
        LET files == Files(call.dir, <<>>)
            n == Len(Added)
        IN  /\ Len(routes) >= Len(call.before)
            /\ SubSeq(routes, 1, Len(call.before)) = call.before
            /\ n < Len(files)
            /\ \A j \in 1..n :
                   /\ Added[j].method = GET
                   /\ Added[j].path = RouteOf(call.path, files[j])
                   /\ Added[j].callback.kind = "static"
                   /\ Added[j].callback.contents = files[j].contents
                   /\ ~Taken(SubSeq(routes, 1, Len(call.before) + j - 1), Added[j].path)
            /\ call.thrown = [name |-> "RouteAlreadyBoundError",
                              route |-> RouteOf(call.path, files[n + 1])]
            /\ Taken(routes, call.thrown.route)

\* C21's case: with a GET route bound by hand two directories down, useStatic
\* bound the index page one directory down, threw at the index page below it
\* and left the first page's route in the table.
C21_Witness ==
    /\ call.op = "useStatic"
    /\ Len(call.before) = 1
    /\ call.before[1].method = GET
    /\ call.before[1].callback.kind = "listener"
    /\ call.thrown.name = "RouteAlreadyBoundError"
    /\ call.thrown.route = call.before[1].path
    /\ Len(routes) = 2
    /\ routes[2].callback.kind = "static"
    /\ routes[2].callback.contents = <<"1">>
    /\ Len(Files(call.dir, <<>>)) = 3

=============================================================================
